---- MODULE Spec2Model ----
(***************************************************************************)
(* Resume matcher: keyword extraction, match scoring, field extraction and *)
(* the POST /api/analyze handler, modelled from src/unnamed/part_000 (the  *)
(* catalog-based matcher) and src/server.js (the plain word-count matcher).*)
(*                                                                         *)
(* A text is a sequence of characters; a character is a one-character      *)
(* string.  Every string operation of the source (toLowerCase, replace,    *)
(* split, includes, match, trim, slice) is an operator on such sequences.  *)
(***************************************************************************)
EXTENDS Integers, Sequences, FiniteSets, TLC

\* ------------------------------------------------------------------------
\* Characters and the character classes of the source's regular expressions
\* ------------------------------------------------------------------------

LowerCaseLetters == <<"a","b","c","d","e","f","g","h","i","j","k","l","m","n","o","p","q","r","s","t","u","v","w","x","y","z">>

UpperCaseLetters == <<"A","B","C","D","E","F","G","H","I","J","K","L","M","N","O","P","Q","R","S","T","U","V","W","X","Y","Z">>

DigitChars == {"0","1","2","3","4","5","6","7","8","9"}

\* \s of a JavaScript regular expression (the ASCII members)
WhitespaceChars == {" ", "\t", "\n", "\r"}

\* the line terminators: what "." does not match and where ^ and $ match under /m
LineTerminators == {"\n", "\r"}

Indices(s) == [i \in 1..Len(s) |-> i]

Range(s) == {s[i] : i \in 1..Len(s)}

Smallest(S) == CHOOSE i \in S : \A j \in S : i <= j

Min(a, b) == IF a <= b THEN a ELSE b

Max(a, b) == IF a >= b THEN a ELSE b

UpperCaseSet == Range(UpperCaseLetters)

LowerCaseSet == Range(LowerCaseLetters)

\* the lower-case letter of each upper-case letter
LowerCaseOf ==
  [c \in UpperCaseSet |->
     LowerCaseLetters[CHOOSE i \in 1..Len(UpperCaseLetters) : UpperCaseLetters[i] = c]]

IsUpper(c) == c \in UpperCaseSet

IsLower(c) == c \in LowerCaseSet

IsDigit(c) == c \in DigitChars

\* \w : [A-Za-z0-9_]
IsWordChar(c) == IsUpper(c) \/ IsLower(c) \/ IsDigit(c) \/ c = "_"

\* \s
IsSpace(c) == c \in WhitespaceChars

toLowerCaseChar(c) == IF IsUpper(c) THEN LowerCaseOf[c] ELSE c

\* String.prototype.toLowerCase
toLowerCase(s) == [i \in 1..Len(s) |-> toLowerCaseChar(s[i])]

\* String.prototype.includes
includes(text, term) ==
  \E i \in 1..(Len(text) - Len(term) + 1) : SubSeq(text, i, i + Len(term) - 1) = term

\* Array.prototype.slice(0, n)
slice(s, n) == SubSeq(s, 1, Min(n, Len(s)))

\* [...new Set(s)] : the first occurrence of each element, in order
Unique(s) ==
  LET first == SelectSeq(Indices(s), LAMBDA i : \A j \in 1..(i - 1) : s[j] # s[i])
  IN  [k \in 1..Len(first) |-> s[first[k]]]

\* String.prototype.split(/\s+/)
split(s) ==
  LET starts == SelectSeq(Indices(s),
                  LAMBDA i : ~IsSpace(s[i]) /\ (i = 1 \/ IsSpace(s[i - 1])))
      endOf(i) == CHOOSE j \in i..Len(s) :
                    /\ \A k \in i..j : ~IsSpace(s[k])
                    /\ (j = Len(s) \/ IsSpace(s[j + 1]))
      leading  == IF s = <<>> \/ IsSpace(s[1]) THEN << <<>> >> ELSE <<>>
      trailing == IF s # <<>> /\ IsSpace(s[Len(s)]) THEN << <<>> >> ELSE <<>>
  IN  leading \o [k \in 1..Len(starts) |-> SubSeq(s, starts[k], endOf(starts[k]))]
              \o trailing

\* String.prototype.trim
trim(s) ==
  LET solid == {i \in 1..Len(s) : ~IsSpace(s[i])}
  IN  IF solid = {} THEN <<>>
      ELSE SubSeq(s, CHOOSE i \in solid : \A j \in solid : i <= j,
                     CHOOSE i \in solid : \A j \in solid : i >= j)

\* Math.round(n / d) for n >= 0, d > 0 in exact arithmetic: halves round up
Round(n, d) == (2 * n + d) \div (2 * d)

\* ------------------------------------------------------------------------
\* Numbers: the quotient and product of (a / b) * w as IEEE-754 doubles.
\* A positive double is held as its exponent e and its significand in three
\* limbs, h above mid above lo, mid and lo of 16 bits:
\*   value = (h * 2^32 + mid * 2^16 + lo) * 2^(-e - 52)
\* ------------------------------------------------------------------------

\* round to nearest, ties to even: whether dropping `rest` out of `whole` rounds up
RoundsUp(rest, whole, odd) == 2 * rest > whole \/ (2 * rest = whole /\ odd)

\* the significand with `add` added to its lowest limb
Carried(h, mid, lo, add) ==
  LET l == lo + add
      m == mid + (l \div (2^16))
  IN  [h |-> h + (m \div (2^16)), mid |-> m % (2^16), lo |-> l % (2^16)]

\* a / b for integers 0 < a <= b: 53 significant bits by long division, rounded
quotient(a, b) ==
  LET e   == CHOOSE k \in 0..8 : a * (2^k) >= b /\ (k = 0 \/ a * (2^(k - 1)) < b)
      n   == a * (2^(e + 20))
      h   == n \div b
      r1  == n % b
      mid == (r1 * (2^16)) \div b
      r2  == (r1 * (2^16)) % b
      lo  == (r2 * (2^16)) \div b
      r3  == (r2 * (2^16)) % b
      sig == Carried(h, mid, lo, IF RoundsUp(r3, b, lo % 2 = 1) THEN 1 ELSE 0)
  IN  [e |-> e, h |-> sig.h, mid |-> sig.mid, lo |-> sig.lo]

\* x * w for a double x and an integer 0 < w < 128: the exact product, rounded
\* back to 53 significant bits
product(x, w) ==
  LET l0   == x.lo * w
      l1   == x.mid * w + (l0 \div (2^16))
      h    == x.h * w + (l1 \div (2^16))
      mid  == l1 % (2^16)
      lo   == l0 % (2^16)
      bits == CHOOSE n \in 1..30 : 2^(n - 1) <= h /\ h < 2^n
      drop == bits - 21
      rest == lo % (2^drop)
      up   == RoundsUp(rest, 2^drop, (lo \div (2^drop)) % 2 = 1)
      sig  == Carried(h, mid, lo - rest, IF up THEN 2^drop ELSE 0)
  IN  [e |-> x.e, h |-> sig.h, mid |-> sig.mid, lo |-> sig.lo]

\* Math.round(y) for a double y >= 1/2: floor(y + 0.5), the integer part plus
\* the bit of weight one half
MathRound(y) == (y.h \div (2^(y.e + 20))) + ((y.h \div (2^(y.e + 19))) % 2)

\* Math.round((a / b) * w) for integers 0 <= a <= b, 0 < b
roundedShare(a, b, w) == IF a = 0 THEN 0 ELSE MathRound(product(quotient(a, b), w))

\* ------------------------------------------------------------------------
\* The term catalog (src/unnamed/part_000)
\* ------------------------------------------------------------------------

stopWords ==
  {
    <<"t","h","e">>,
    <<"a","n","d">>,
    <<"f","o","r">>,
    <<"w","i","t","h">>,
    <<"t","h","i","s">>,
    <<"t","h","a","t">>,
    <<"f","r","o","m">>,
    <<"w","i","l","l">>,
    <<"h","a","v","e">>,
    <<"h","a","s">>,
    <<"a","r","e">>,
    <<"w","a","s">>,
    <<"w","e","r","e">>,
    <<"b","e","e","n">>,
    <<"b","e","i","n","g">>,
    <<"b","u","t">>,
    <<"n","o","t">>,
    <<"c","a","n">>,
    <<"c","o","u","l","d">>,
    <<"s","h","o","u","l","d">>,
    <<"w","o","u","l","d">>,
    <<"m","a","y">>,
    <<"m","i","g","h","t">>,
    <<"m","u","s","t">>,
    <<"s","h","a","l","l">>,
    <<"o","u","r">>,
    <<"y","o","u","r">>,
    <<"t","h","e","i","r">>,
    <<"i","t","s">>,
    <<"a","b","o","u","t">>,
    <<"i","n","t","o">>,
    <<"t","h","r","o","u","g","h">>,
    <<"d","u","r","i","n","g">>,
    <<"b","e","f","o","r","e">>,
    <<"a","f","t","e","r">>,
    <<"a","b","o","v","e">>,
    <<"b","e","l","o","w">>,
    <<"b","e","t","w","e","e","n">>,
    <<"u","n","d","e","r">>,
    <<"a","g","a","i","n">>,
    <<"f","u","r","t","h","e","r">>,
    <<"t","h","e","n">>,
    <<"o","n","c","e">>,
    <<"h","e","r","e">>,
    <<"t","h","e","r","e">>,
    <<"w","h","e","n">>,
    <<"w","h","e","r","e">>,
    <<"w","h","y">>,
    <<"h","o","w">>,
    <<"a","l","l">>,
    <<"b","o","t","h">>,
    <<"e","a","c","h">>,
    <<"f","e","w">>,
    <<"m","o","r","e">>,
    <<"m","o","s","t">>,
    <<"o","t","h","e","r">>,
    <<"s","o","m","e">>,
    <<"s","u","c","h">>,
    <<"o","n","l","y">>,
    <<"o","w","n">>,
    <<"s","a","m","e">>,
    <<"t","h","a","n">>,
    <<"t","o","o">>,
    <<"v","e","r","y">>,
    <<"w","o","r","k">>,
    <<"w","o","r","k","i","n","g">>,
    <<"e","x","p","e","r","i","e","n","c","e">>,
    <<"y","e","a","r","s">>,
    <<"t","e","a","m">>,
    <<"c","o","m","p","a","n","y">>,
    <<"r","o","l","e">>,
    <<"p","o","s","i","t","i","o","n">>,
    <<"r","e","s","p","o","n","s","i","b","i","l","i","t","i","e","s">>,
    <<"r","e","q","u","i","r","e","m","e","n","t","s">>,
    <<"s","k","i","l","l","s">>,
    <<"a","b","i","l","i","t","y">>,
    <<"s","t","r","o","n","g">>,
    <<"g","o","o","d">>,
    <<"e","x","c","e","l","l","e","n","t">>,
    <<"k","n","o","w","l","e","d","g","e">>,
    <<"u","n","d","e","r","s","t","a","n","d","i","n","g">>,
    <<"i","n","c","l","u","d","i","n","g">>,
    <<"r","e","q","u","i","r","e","d">>,
    <<"p","r","e","f","e","r","r","e","d">>
  }

technicalTermsList ==
  <<
    <<"j","a","v","a","s","c","r","i","p","t">>,
    <<"p","y","t","h","o","n">>,
    <<"j","a","v","a">>,
    <<"t","y","p","e","s","c","r","i","p","t">>,
    <<"c","+","+">>,
    <<"r","u","b","y">>,
    <<"p","h","p">>,
    <<"s","w","i","f","t">>,
    <<"k","o","t","l","i","n">>,
    <<"g","o">>,
    <<"r","u","s","t">>,
    <<"s","c","a","l","a">>,
    <<"r">>,
    <<"m","a","t","l","a","b">>,
    <<"p","e","r","l">>,
    <<"s","h","e","l","l">>,
    <<"b","a","s","h">>,
    <<"r","e","a","c","t">>,
    <<"a","n","g","u","l","a","r">>,
    <<"v","u","e">>,
    <<"s","v","e","l","t","e">>,
    <<"h","t","m","l">>,
    <<"c","s","s">>,
    <<"s","a","s","s">>,
    <<"l","e","s","s">>,
    <<"w","e","b","p","a","c","k">>,
    <<"n","e","x","t","j","s">>,
    <<"g","a","t","s","b","y">>,
    <<"t","a","i","l","w","i","n","d">>,
    <<"b","o","o","t","s","t","r","a","p">>,
    <<"j","q","u","e","r","y">>,
    <<"r","e","d","u","x">>,
    <<"m","o","b","x">>,
    <<"n","o","d","e","j","s">>,
    <<"n","o","d","e",".","j","s">>,
    <<"e","x","p","r","e","s","s">>,
    <<"d","j","a","n","g","o">>,
    <<"f","l","a","s","k">>,
    <<"s","p","r","i","n","g">>,
    <<"l","a","r","a","v","e","l">>,
    <<"r","a","i","l","s">>,
    <<"f","a","s","t","a","p","i">>,
    <<"n","e","s","t","j","s">>,
    <<"g","r","a","p","h","q","l">>,
    <<"r","e","s","t">>,
    <<"a","p","i">>,
    <<"m","i","c","r","o","s","e","r","v","i","c","e","s">>,
    <<"s","q","l">>,
    <<"m","y","s","q","l">>,
    <<"p","o","s","t","g","r","e","s","q","l">>,
    <<"m","o","n","g","o","d","b">>,
    <<"r","e","d","i","s">>,
    <<"e","l","a","s","t","i","c","s","e","a","r","c","h">>,
    <<"c","a","s","s","a","n","d","r","a">>,
    <<"d","y","n","a","m","o","d","b">>,
    <<"o","r","a","c","l","e">>,
    <<"s","q","l","i","t","e">>,
    <<"m","a","r","i","a","d","b">>,
    <<"n","o","s","q","l">>,
    <<"f","i","r","e","b","a","s","e">>,
    <<"a","w","s">>,
    <<"a","z","u","r","e">>,
    <<"g","c","p">>,
    <<"d","o","c","k","e","r">>,
    <<"k","u","b","e","r","n","e","t","e","s">>,
    <<"j","e","n","k","i","n","s">>,
    <<"g","i","t","l","a","b">>,
    <<"g","i","t","h","u","b">>,
    <<"t","e","r","r","a","f","o","r","m">>,
    <<"a","n","s","i","b","l","e">>,
    <<"c","i","/","c","d">>,
    <<"d","e","v","o","p","s">>,
    <<"c","l","o","u","d">>,
    <<"s","e","r","v","e","r","l","e","s","s">>,
    <<"l","a","m","b","d","a">>,
    <<"t","e","n","s","o","r","f","l","o","w">>,
    <<"p","y","t","o","r","c","h">>,
    <<"k","e","r","a","s">>,
    <<"s","c","i","k","i","t","-","l","e","a","r","n">>,
    <<"p","a","n","d","a","s">>,
    <<"n","u","m","p","y">>,
    <<"j","u","p","y","t","e","r">>,
    <<"m","a","c","h","i","n","e"," ","l","e","a","r","n","i","n","g">>,
    <<"d","e","e","p"," ","l","e","a","r","n","i","n","g">>,
    <<"n","l","p">>,
    <<"c","o","m","p","u","t","e","r"," ","v","i","s","i","o","n">>,
    <<"d","a","t","a"," ","s","c","i","e","n","c","e">>,
    <<"g","i","t">>,
    <<"j","i","r","a">>,
    <<"a","g","i","l","e">>,
    <<"s","c","r","u","m">>,
    <<"k","a","n","b","a","n">>,
    <<"t","e","s","t","i","n","g">>,
    <<"j","u","n","i","t">>,
    <<"j","e","s","t">>,
    <<"c","y","p","r","e","s","s">>,
    <<"s","e","l","e","n","i","u","m">>,
    <<"t","d","d">>,
    <<"b","d","d">>,
    <<"l","i","n","u","x">>,
    <<"u","n","i","x">>,
    <<"n","g","i","n","x">>,
    <<"a","p","a","c","h","e">>,
    <<"l","e","a","d","e","r","s","h","i","p">>,
    <<"c","o","m","m","u","n","i","c","a","t","i","o","n">>,
    <<"c","o","l","l","a","b","o","r","a","t","i","o","n">>,
    <<"p","r","o","b","l","e","m","-","s","o","l","v","i","n","g">>,
    <<"a","n","a","l","y","t","i","c","a","l">>,
    <<"m","e","n","t","o","r","i","n","g">>,
    <<"p","r","o","j","e","c","t"," ","m","a","n","a","g","e","m","e","n","t">>,
    <<"s","t","a","k","e","h","o","l","d","e","r"," ","m","a","n","a","g","e","m","e","n","t">>
  >>

technicalTerms == Range(technicalTermsList)

\* ------------------------------------------------------------------------
\* extractKeywords (src/unnamed/part_000)
\* ------------------------------------------------------------------------

\* text.toLowerCase().replace(/[^\w\s.-]/g, ' ').replace(/\s+/g, ' ')
normalizedText(text) ==
  LET lower    == toLowerCase(text)
      replaced == [i \in 1..Len(lower) |->
                     IF IsWordChar(lower[i]) \/ IsSpace(lower[i]) \/ lower[i] \in {".", "-"}
                     THEN lower[i] ELSE " "]
      kept     == SelectSeq(Indices(replaced),
                    LAMBDA i : ~IsSpace(replaced[i]) \/ i = 1 \/ ~IsSpace(replaced[i - 1]))
  IN  [k \in 1..Len(kept) |-> IF IsSpace(replaced[kept[k]]) THEN " " ELSE replaced[kept[k]]]

\* the catalog's terms with a space, in catalog order: term.includes(' ')
multiWordCatalog == SelectSeq(technicalTermsList, LAMBDA term : includes(term, <<" ">>))

\* those of them that occur in the normalised text
multiWordTerms(normalized) ==
  SelectSeq(multiWordCatalog, LAMBDA term : includes(normalized, term))

\* /[\d+#.-]/.test(word)
HasDigitOrSymbol(word) ==
  \E i \in 1..Len(word) : IsDigit(word[i]) \/ word[i] \in {"+", "#", ".", "-"}

words(normalized) ==
  SelectSeq(split(normalized),
    LAMBDA word : /\ Len(word) > 2
                  /\ word \notin stopWords
                  /\ (word \in technicalTerms \/ HasDigitOrSymbol(word)))

allTerms(normalized) == Unique(multiWordTerms(normalized) \o words(normalized))

\* whether new RegExp(term, 'gi') matches the text at position i: every character
\* of a term is a literal but ".", which matches any character but a line terminator
RegExpMatchesAt(term, text, i) ==
  /\ i + Len(term) - 1 <= Len(text)
  /\ \A k \in 1..Len(term) :
        IF term[k] = "."
        THEN text[i + k - 1] \notin LineTerminators
        ELSE toLowerCaseChar(term[k]) = toLowerCaseChar(text[i + k - 1])

RECURSIVE CountMatchesFrom(_, _, _)
\* (text.match(new RegExp(term, 'gi')) || []).length : non-overlapping, left to right
CountMatchesFrom(term, text, i) ==
  LET hits == {j \in i..Len(text) : RegExpMatchesAt(term, text, j)}
  IN  IF hits = {} THEN 0
      ELSE 1 + CountMatchesFrom(term, text, Smallest(hits) + Len(term))

\* numeric order of two canonical digit strings
NumericLess(a, b) ==
  \/ Len(a) < Len(b)
  \/ /\ Len(a) = Len(b)
     /\ \E i \in 1..Len(a) :
           /\ \A j \in 1..(i - 1) : a[j] = b[j]
           /\ \E x, y \in 0..9 : /\ x < y
                                 /\ a[i] = <<"0","1","2","3","4","5","6","7","8","9">>[x + 1]
                                 /\ b[i] = <<"0","1","2","3","4","5","6","7","8","9">>[y + 1]

\* a property key that is an array index ("123"): a canonical number below 2^32 - 1
IsArrayIndex(key) ==
  /\ key # <<>>
  /\ \A i \in 1..Len(key) : IsDigit(key[i])
  /\ (Len(key) > 1 => key[1] # "0")
  /\ NumericLess(key, <<"4","2","9","4","9","6","7","2","9","5">>)

\* the order in which Object.entries lists an object's keys: the array indices in
\* ascending order, then the other keys in insertion order
EntriesOrder(keys) ==
  LET idx   == {keys[i] : i \in {j \in 1..Len(keys) : IsArrayIndex(keys[j])}}
      rank(k) == 1 + Cardinality({o \in idx : NumericLess(o, k)})
  IN  [r \in 1..Cardinality(idx) |-> CHOOSE k \in idx : rank(k) = r]
      \o SelectSeq(keys, LAMBDA k : ~IsArrayIndex(k))

\* the comparator of the sort: technical terms first, then by descending count
compareTerms(a, b) ==
  LET aIsTech == a[1] \in technicalTerms
      bIsTech == b[1] \in technicalTerms
  IN  IF aIsTech /\ ~bIsTech THEN -1
      ELSE IF ~aIsTech /\ bIsTech THEN 1
      ELSE b[2] - a[2]

\* Array.prototype.sort with compareTerms: a stable sort
sortTerms(entries) ==
  LET n == Len(entries)
      pos(i) == 1 + Cardinality({j \in 1..n :
                      \/ compareTerms(entries[j], entries[i]) < 0
                      \/ compareTerms(entries[j], entries[i]) = 0 /\ j < i})
  IN  [p \in 1..n |-> entries[CHOOSE i \in 1..n : pos(i) = p]]

\* extractKeywords without its .slice(0, 30)
extractKeywordsUncapped(text) ==
  LET normalized == normalizedText(text)
      keys       == EntriesOrder(allTerms(normalized))
      termCount  == [i \in 1..Len(keys) |-> <<keys[i], CountMatchesFrom(keys[i], normalized, 1)>>]
      sorted     == sortTerms(termCount)
  IN  [i \in 1..Len(sorted) |-> sorted[i][1]]

KeywordCap == 30

extractKeywords(text) ==
  LET normalized == normalizedText(text)
      keys       == EntriesOrder(allTerms(normalized))
      termCount  == [i \in 1..Len(keys) |-> <<keys[i], CountMatchesFrom(keys[i], normalized, 1)>>]
      sorted     == slice(sortTerms(termCount), KeywordCap)
  IN  [i \in 1..Len(sorted) |-> sorted[i][1]]


\* ------------------------------------------------------------------------
\* The match scorer: the synchronous first half of analyzeWithHuggingFace
\* (src/unnamed/part_000)
\* ------------------------------------------------------------------------

ScoreCap == 95

TechnicalWeight == 100

FallbackWeight == 85

MissingCap == 6

ReportMissingCap == 5

SkillsCap == 8

FallbackSkillsCap == 5

\* new Set(resumeKeywords.map(k => k.toLowerCase()))
resumeSet(resumeKeywords) == {toLowerCase(resumeKeywords[i]) : i \in 1..Len(resumeKeywords)}

matchedSkills(resumeKeywords, jdKeywords) ==
  SelectSeq(jdKeywords, LAMBDA jdKeyword : toLowerCase(jdKeyword) \in resumeSet(resumeKeywords))

\* the filter that forgets to look the keyword up in the resume's set
missingKeywordsUnchecked(resumeKeywords, jdKeywords) ==
  slice(SelectSeq(jdKeywords, LAMBDA jdKeyword : toLowerCase(jdKeyword) \in technicalTerms),
        MissingCap)

missingKeywords(resumeKeywords, jdKeywords) ==
  slice(SelectSeq(jdKeywords,
          LAMBDA jdKeyword : /\ toLowerCase(jdKeyword) \notin resumeSet(resumeKeywords)
                             /\ toLowerCase(jdKeyword) \in technicalTerms),
        MissingCap)

technicalMatches(matched) ==
  SelectSeq(matched, LAMBDA skill : toLowerCase(skill) \in technicalTerms)

technicalRequirements(jdKeywords) ==
  SelectSeq(jdKeywords, LAMBDA keyword : toLowerCase(keyword) \in technicalTerms)

\* matchScore as assigned by the if/else, before the cap
scoreBeforeCap(matched, jdKeywords) ==
  IF Len(technicalRequirements(jdKeywords)) > 0
  THEN roundedShare(Len(technicalMatches(matched)), Len(technicalRequirements(jdKeywords)),
                    TechnicalWeight)
  ELSE roundedShare(Len(matched), Max(Len(jdKeywords), 1), FallbackWeight)

\* the cap left out
capScoreMissing(score) == score

\* Math.min(matchScore, 95)
capScore(score) == Min(score, ScoreCap)

\* the display list without its fallback to the resume's own technical keywords
displaySkillsNoFallback(matched, resumeKeywords) == slice(matched, SkillsCap)

displaySkills(matched, resumeKeywords) ==
  IF Len(matched) > 0
  THEN slice(matched, SkillsCap)
  ELSE slice(SelectSeq(resumeKeywords, LAMBDA k : toLowerCase(k) \in technicalTerms),
             FallbackSkillsCap)

matchLevel(matchScore) ==
  IF matchScore >= 80 THEN "Strong Candidate Match"
  ELSE IF matchScore >= 60 THEN "Good Candidate Match"
  ELSE IF matchScore >= 40 THEN "Moderate Candidate Match"
  ELSE "Potential Candidate Match"

\* the locals of analyzeWithHuggingFace when it reaches the fetch
scoring(resumeText, jobDescription) ==
  LET resumeKeywords == extractKeywords(resumeText)
      jdKeywords     == extractKeywords(jobDescription)
      matched        == matchedSkills(resumeKeywords, jdKeywords)
      raw            == scoreBeforeCap(matched, jdKeywords)
  IN  [ resumeKeywords  |-> resumeKeywords,
        jdKeywords      |-> jdKeywords,
        matchedSkills   |-> matched,
        missingKeywords |-> missingKeywords(resumeKeywords, jdKeywords),
        scoreBeforeCap  |-> raw,
        matchScore      |-> capScore(raw),
        displaySkills   |-> displaySkills(matched, resumeKeywords) ]

\* ------------------------------------------------------------------------
\* The field extractor: titlePatterns and companyPatterns
\* (src/unnamed/part_000), regular expressions on the raw job description
\* ------------------------------------------------------------------------

NoMatch == [matched |-> FALSE, capture |-> <<>>]

\* whether the literal matches the text at position i under the /i flag
LiteralAt(text, i, literal) ==
  /\ i >= 1
  /\ i + Len(literal) - 1 <= Len(text)
  /\ \A k \in 1..Len(literal) : toLowerCaseChar(text[i + k - 1]) = toLowerCaseChar(literal[k])

\* the number of consecutive characters from position start that are in (inside =
\* TRUE) or outside (inside = FALSE) the class
RunLength(text, start, class, inside) ==
  LET stops == {j \in start..Len(text) : (text[j] \in class) # inside}
  IN  IF start > Len(text) THEN 0
      ELSE IF stops = {} THEN Len(text) - start + 1
      ELSE Smallest(stops) - start

\* [^\n,.]
CaptureStops == {"\n", ",", "."}

RECURSIVE FirstViable(_, _, _)
\* the first capture start, in the order the matcher backtracks through them,
\* from which at least minLen characters of [^\n,.] follow; 0 when there is none
FirstViable(text, starts, minLen) ==
  IF starts = <<>> THEN 0
  ELSE IF RunLength(text, Head(starts), CaptureStops, FALSE) >= minLen
       THEN Head(starts)
       ELSE FirstViable(text, Tail(starts), minLen)

\* the capture starts \s* offers from position p: the longest whitespace run first
AfterSpaces(text, p) ==
  LET n == RunLength(text, p, WhitespaceChars, TRUE)
  IN  [k \in 1..(n + 1) |-> p + n - (k - 1)]

\* ([^\n,.]{min,max}) from the first viable start: greedy, at most maxLen characters
CaptureFrom(text, starts, minLen, maxLen) ==
  LET start == FirstViable(text, starts, minLen)
  IN  IF start = 0 THEN NoMatch
      ELSE [matched |-> TRUE,
            capture |-> SubSeq(text, start,
                          start + Min(RunLength(text, start, CaptureStops, FALSE), maxLen) - 1)]

\* the match at the leftmost position where the attempt succeeds: attempts[i] is
\* the attempt at position i
Leftmost(attempts) ==
  LET hits == {i \in 1..Len(attempts) : attempts[i].matched}
  IN  IF hits = {} THEN NoMatch ELSE attempts[Smallest(hits)]

\* the first alternative, in the order written, whose attempt succeeds:
\* attempts[k] is the attempt with the k-th alternative
FirstAlternative(attempts) ==
  LET hits == {k \in 1..Len(attempts) : attempts[k].matched}
  IN  IF hits = {} THEN NoMatch ELSE attempts[Smallest(hits)]

\* /(?:label1|label2|...):\s*([^\n,.]+)/i
labelPattern(text, labels) ==
  LET after(i, label) ==
        IF LiteralAt(text, i, label \o <<":">>)
        THEN CaptureFrom(text, AfterSpaces(text, i + Len(label) + 1), 1, Len(text))
        ELSE NoMatch
      at(i) == FirstAlternative([k \in 1..Len(labels) |-> after(i, labels[k])])
  IN  Leftmost([i \in 1..Len(text) |-> at(i)])


RECURSIVE ArticleStarts(_, _, _)
\* after \s+ has taken s of the whitespace characters from p: (?:a|an)? tries
\* "a", then "an", then nothing, each followed by \s*; then \s+ gives one back
ArticleStarts(text, p, s) ==
  IF s < 1 THEN <<>>
  ELSE LET q == p + s
       IN  (IF LiteralAt(text, q, <<"a">>) THEN AfterSpaces(text, q + 1) ELSE <<>>)
           \o (IF LiteralAt(text, q, <<"a","n">>) THEN AfterSpaces(text, q + 2) ELSE <<>>)
           \o AfterSpaces(text, q)
           \o ArticleStarts(text, p, s - 1)

\* /(?:hiring|seeking|looking for)\s+(?:a|an)?\s*([^\n,.]{10,50})/i
hiringPattern(text) ==
  LET after(i, phrase) ==
        LET p == i + Len(phrase)
        IN  IF LiteralAt(text, i, phrase)
            THEN CaptureFrom(text,
                   ArticleStarts(text, p, RunLength(text, p, WhitespaceChars, TRUE)), 10, 50)
            ELSE NoMatch
      phrases == <<<<"h","i","r","i","n","g">>, <<"s","e","e","k","i","n","g">>, <<"l","o","o","k","i","n","g"," ","f","o","r">>>>
      at(i) == FirstAlternative([k \in 1..Len(phrases) |-> after(i, phrases[k])])
  IN  Leftmost([i \in 1..Len(text) |-> at(i)])

\* [A-Z][a-z]+ at position i: the position of its last character, 0 when it fails
TitleWordEnd(text, i) ==
  IF i <= Len(text) /\ IsUpper(text[i])
     /\ RunLength(text, i + 1, LowerCaseSet, TRUE) >= 1
  THEN i + RunLength(text, i + 1, LowerCaseSet, TRUE)
  ELSE 0

RECURSIVE TitleWordEnds(_, _, _)
\* the ends of the words of (?:\s+[A-Z][a-z]+){1,4} that follow a word ending at e
TitleWordEnds(text, e, left) ==
  LET n    == RunLength(text, e + 1, WhitespaceChars, TRUE)
      next == IF n >= 1 THEN TitleWordEnd(text, e + 1 + n) ELSE 0
  IN  IF left = 0 \/ next = 0 THEN <<>>
      ELSE <<next>> \o TitleWordEnds(text, next, left - 1)

\* \s*$ under /m after position e: some whitespace, then a line terminator or the end
LineEndsAfter(text, e) ==
  \E t \in 0..RunLength(text, e + 1, WhitespaceChars, TRUE) :
     e + t = Len(text) \/ text[e + t + 1] \in LineTerminators

\* /^([A-Z][a-z]+(?:\s+[A-Z][a-z]+){1,4})\s*$/m
titleLinePattern(text) ==
  LET at(i) ==
        LET first == TitleWordEnd(text, i)
            more  == IF first = 0 THEN <<>> ELSE TitleWordEnds(text, first, 4)
            ok    == {k \in 1..Len(more) : LineEndsAfter(text, more[k])}
        IN  IF (i = 1 \/ text[i - 1] \in LineTerminators) /\ ok # {}
            THEN [matched |-> TRUE,
                  capture |-> SubSeq(text, i, more[CHOOSE k \in ok : \A j \in ok : j <= k])]
            ELSE NoMatch
  IN  Leftmost([i \in 1..Len(text) |-> at(i)])

RECURSIVE SpaceStarts(_, _)
\* the capture starts \s+ offers from position p: the longest run first, never none
SpaceStarts(p, s) == IF s < 1 THEN <<>> ELSE <<p + s>> \o SpaceStarts(p, s - 1)

\* /(?:join|work at|careers at)\s+([^\n,.]{2,30})/i
joinPattern(text) ==
  LET after(i, phrase) ==
        LET p == i + Len(phrase)
        IN  IF LiteralAt(text, i, phrase)
            THEN CaptureFrom(text,
                   SpaceStarts(p, RunLength(text, p, WhitespaceChars, TRUE)), 2, 30)
            ELSE NoMatch
      phrases == <<<<"j","o","i","n">>, <<"w","o","r","k"," ","a","t">>, <<"c","a","r","e","e","r","s"," ","a","t">>>>
      at(i) == FirstAlternative([k \in 1..Len(phrases) |-> after(i, phrases[k])])
  IN  Leftmost([i \in 1..Len(text) |-> at(i)])

titlePatterns(jobDescription) ==
  << labelPattern(jobDescription, <<<<"p","o","s","i","t","i","o","n">>, <<"r","o","l","e">>, <<"t","i","t","l","e">>, <<"j","o","b">>>>),
     hiringPattern(jobDescription),
     titleLinePattern(jobDescription) >>

companyPatterns(jobDescription) ==
  << labelPattern(jobDescription, <<<<"c","o","m","p","a","n","y">>, <<"a","t">>, <<"e","m","p","l","o","y","e","r">>>>),
     joinPattern(jobDescription) >>

TargetPosition == <<"T","a","r","g","e","t"," ","P","o","s","i","t","i","o","n">>

TargetCompany == <<"T","a","r","g","e","t"," ","C","o","m","p","a","n","y">>

RECURSIVE lastMatch(_, _)
\* the loop without its break: the last pattern that matches decides
lastMatch(matches, placeholder) ==
  IF matches = <<>> THEN placeholder
  ELSE LET m == matches[Len(matches)]
       IN  IF m.matched /\ m.capture # <<>>
           THEN trim(m.capture)
           ELSE lastMatch(SubSeq(matches, 1, Len(matches) - 1), placeholder)

RECURSIVE firstMatch(_, _)
\* for (const pattern of patterns) { if (match && match[1]) { x = match[1].trim(); break; } }
firstMatch(matches, placeholder) ==
  IF matches = <<>> THEN placeholder
  ELSE IF Head(matches).matched /\ Head(matches).capture # <<>>
       THEN trim(Head(matches).capture)
       ELSE firstMatch(Tail(matches), placeholder)

positionTitle(jobDescription) == firstMatch(titlePatterns(jobDescription), TargetPosition)

company(jobDescription) == firstMatch(companyPatterns(jobDescription), TargetCompany)

\* ------------------------------------------------------------------------
\* The suggestion provider: the fallback list and the summary's post-processing
\* (src/unnamed/part_000)
\* ------------------------------------------------------------------------

fallbackImprovements ==
  << <<"A","d","d"," ","q","u","a","n","t","i","f","i","a","b","l","e"," ","m","e","t","r","i","c","s"," ","t","o"," ","y","o","u","r"," ","a","c","h","i","e","v","e","m","e","n","t","s"," ","(","e",".","g",".",","," ","'","I","n","c","r","e","a","s","e","d"," ","p","e","r","f","o","r","m","a","n","c","e"," ","b","y"," ","4","0","%","'",","," ","'","L","e","d"," ","t","e","a","m"," ","o","f"," ","5"," ","d","e","v","e","l","o","p","e","r","s","'",")">>,
     <<"I","n","c","l","u","d","e"," ","m","o","r","e"," ","t","e","c","h","n","i","c","a","l"," ","k","e","y","w","o","r","d","s"," ","f","r","o","m"," ","t","h","e"," ","j","o","b"," ","d","e","s","c","r","i","p","t","i","o","n"," ","i","n"," ","y","o","u","r"," ","s","k","i","l","l","s"," ","a","n","d"," ","e","x","p","e","r","i","e","n","c","e"," ","s","e","c","t","i","o","n","s">>,
     <<"H","i","g","h","l","i","g","h","t"," ","p","r","o","j","e","c","t","s"," ","o","r"," ","e","x","p","e","r","i","e","n","c","e","s"," ","t","h","a","t"," ","d","i","r","e","c","t","l","y"," ","r","e","l","a","t","e"," ","t","o"," ","t","h","e"," ","k","e","y"," ","r","e","s","p","o","n","s","i","b","i","l","i","t","i","e","s"," ","m","e","n","t","i","o","n","e","d"," ","i","n"," ","t","h","e"," ","j","o","b"," ","d","e","s","c","r","i","p","t","i","o","n">> >>

PromptCap == 200

SentenceMinLength == 10

SuggestionCap == 3

\* the two excerpts the prompt is built from
prompt(resumeText, jobDescription) ==
  [ jobRequirements |-> slice(jobDescription, PromptCap),
    resumeSummary   |-> slice(resumeText, PromptCap) ]

\* String.prototype.split('.')
splitOnPeriod(s) ==
  LET dots   == SelectSeq(Indices(s), LAMBDA i : s[i] = ".")
      from(k) == IF k = 1 THEN 1 ELSE dots[k - 1] + 1
      to(k)   == IF k = Len(dots) + 1 THEN Len(s) ELSE dots[k] - 1
  IN  [k \in 1..(Len(dots) + 1) |-> SubSeq(s, from(k), to(k))]

\* summary_text.split('.').filter(s => s.trim().length > 10).slice(0, 3)
suggestions(summaryText) ==
  slice(SelectSeq(splitOnPeriod(summaryText), LAMBDA s : Len(trim(s)) > SentenceMinLength),
        SuggestionCap)

\* The ways the summarization call can end.  kind:
\*   "rejected"    fetch rejects (network error)
\*   "not_ok"      a response whose status is not a success
\*   "bad_json"    response.json() rejects (malformed body)
\*   "null"        the body is JSON null: data[0] throws
\*   "no_summary"  data[0] is missing or has no (or an empty) summary_text
\*   "not_string"  summary_text is truthy but no string: .split throws
\*   "summary"     data[0].summary_text is the text
CallFailures == {"rejected", "not_ok", "bad_json", "null", "no_summary", "not_string"}

\* improvements after the inner try/catch, given how the call ended
improvementsAfter(kind, summaryText) ==
  IF kind = "summary" /\ summaryText # <<>> /\ Len(suggestions(summaryText)) > 0
  THEN [i \in 1..Len(suggestions(summaryText)) |-> trim(suggestions(summaryText)[i]) \o <<".">>]
  ELSE fallbackImprovements

\* ------------------------------------------------------------------------
\* src/server.js: the plain word-count matcher
\* ------------------------------------------------------------------------

SimpleKeywordCap == 20

SimpleWordMinLength == 3

SimpleSkillsCap == 6

SimpleMissingCap == 5

SimpleReportMissingCap == 4

RandomSpread == 10

simpleFallbackImprovements ==
  << <<"Q","u","a","n","t","i","f","y"," ","y","o","u","r"," ","a","c","h","i","e","v","e","m","e","n","t","s"," ","w","i","t","h"," ","s","p","e","c","i","f","i","c"," ","m","e","t","r","i","c","s"," ","a","n","d"," ","n","u","m","b","e","r","s">>,
     <<"A","d","d"," ","m","o","r","e"," ","k","e","y","w","o","r","d","s"," ","f","r","o","m"," ","t","h","e"," ","j","o","b"," ","d","e","s","c","r","i","p","t","i","o","n"," ","t","o"," ","y","o","u","r"," ","s","k","i","l","l","s"," ","s","e","c","t","i","o","n">>,
     <<"H","i","g","h","l","i","g","h","t"," ","r","e","l","e","v","a","n","t"," ","e","x","p","e","r","i","e","n","c","e"," ","t","h","a","t"," ","m","a","t","c","h","e","s"," ","t","h","e"," ","j","o","b"," ","r","e","q","u","i","r","e","m","e","n","t","s">> >>

\* Array.prototype.sort((a, b) => b[1] - a[1]): a stable sort by descending count
sortByCount(entries) ==
  LET n == Len(entries)
      pos(i) == 1 + Cardinality({j \in 1..n :
                      \/ entries[j][2] > entries[i][2]
                      \/ entries[j][2] = entries[i][2] /\ j < i})
  IN  [p \in 1..n |-> entries[CHOOSE i \in 1..n : pos(i) = p]]

\* extractKeywords of src/server.js
extractKeywordsSimple(text) ==
  LET lower    == toLowerCase(text)
      replaced == [i \in 1..Len(lower) |->
                     IF IsWordChar(lower[i]) \/ IsSpace(lower[i]) THEN lower[i] ELSE " "]
      kept     == SelectSeq(split(replaced), LAMBDA word : Len(word) > SimpleWordMinLength)
      keys     == EntriesOrder(Unique(kept))
      wordCount == [i \in 1..Len(keys) |->
                      <<keys[i], Cardinality({j \in 1..Len(kept) : kept[j] = keys[i]})>>]
      sorted   == slice(sortByCount(wordCount), SimpleKeywordCap)
  IN  [i \in 1..Len(sorted) |-> sorted[i][1]]

\* resumeKeywords.filter(skill => jdKeywords.includes(skill)).slice(0, 6)
simpleMatchedSkills(resumeKeywords, jdKeywords) ==
  slice(SelectSeq(resumeKeywords, LAMBDA skill : skill \in Range(jdKeywords)), SimpleSkillsCap)

\* jdKeywords.filter(skill => !resumeKeywords.includes(skill)).slice(0, 5)
simpleMissingKeywords(resumeKeywords, jdKeywords) ==
  slice(SelectSeq(jdKeywords, LAMBDA skill : skill \notin Range(resumeKeywords)), SimpleMissingCap)

\* Math.round(matched / max(jd, 1) * 100 + Math.random() * 10), Math.random()
\* having returned the fraction random[1] / random[2]
\* (for the fractions of RandomValues the doubles give what exact arithmetic gives)
simpleScore(matched, jdKeywords, random) ==
  LET n == Len(matched) * TechnicalWeight
      d == Max(Len(jdKeywords), 1)
  IN  Round(n * random[2] + RandomSpread * random[1] * d, d * random[2])

simpleMatchLevel(matchScore) ==
  IF matchScore >= 80 THEN "Strong Candidate Match"
  ELSE IF matchScore >= 60 THEN "Good Candidate Match"
  ELSE IF matchScore >= 40 THEN "Moderate Candidate Match"
  ELSE "Weak Candidate Match"

\* the locals of server.js's analyzeWithHuggingFace when it reaches the fetch,
\* for one value of the random term
simpleScoring(resumeText, jobDescription, random) ==
  LET resumeKeywords == extractKeywordsSimple(resumeText)
      jdKeywords     == extractKeywordsSimple(jobDescription)
      matched        == simpleMatchedSkills(resumeKeywords, jdKeywords)
      score          == simpleScore(matched, jdKeywords, random)
  IN  [ resumeKeywords  |-> resumeKeywords,
        jdKeywords      |-> jdKeywords,
        matchedSkills   |-> matched,
        missingKeywords |-> simpleMissingKeywords(resumeKeywords, jdKeywords),
        scoreBeforeCap  |-> score,
        matchScore      |-> capScore(score),
        displaySkills   |-> matched ]

\* const titleMatch = jobDescription.match(...); titleMatch ? titleMatch[1].trim() : "Target Position"
simplePositionTitle(jobDescription) ==
  LET titleMatch == labelPattern(jobDescription, <<<<"p","o","s","i","t","i","o","n">>, <<"r","o","l","e">>, <<"t","i","t","l","e">>, <<"j","o","b">>>>)
  IN  IF titleMatch.matched THEN trim(titleMatch.capture) ELSE TargetPosition

simpleCompany(jobDescription) ==
  LET companyMatch == labelPattern(jobDescription, <<<<"c","o","m","p","a","n","y">>, <<"a","t">>, <<"e","m","p","l","o","y","e","r">>>>)
  IN  IF companyMatch.matched THEN trim(companyMatch.capture) ELSE TargetCompany

\* ------------------------------------------------------------------------
\* Inputs
\* ------------------------------------------------------------------------

\* the largest number of pieces a generated text is made of
MaxPieces == 2

RECURSIVE Concatenations(_, _)
\* every text made of at most n pieces
Concatenations(pieces, n) ==
  IF n = 0 THEN {<<>>}
  ELSE LET shorter == Concatenations(pieces, n - 1)
       IN  shorter \cup {t \o p : t \in shorter, p \in pieces}

\* the resume and the job description of the scenario the documentation works out
ScenarioResume == <<"E","x","p","e","r","i","e","n","c","e","d"," ","P","y","t","h","o","n"," ","d","e","v","e","l","o","p","e","r"," ","w","i","t","h"," ","D","o","c","k","e","r"," ","a","n","d"," ","A","W","S"," ","s","k","i","l","l","s">>

ScenarioJobDescription ==
  <<"L","o","o","k","i","n","g"," ","f","o","r"," ","a"," ","P","y","t","h","o","n"," ","D","e","v","e","l","o","p","e","r"," ","w","i","t","h"," ","D","o","c","k","e","r",","," ","K","u","b","e","r","n","e","t","e","s"," ","a","n","d"," ","A","W","S"," ","e","x","p","e","r","i","e","n","c","e","."," ","P","o","s","i","t","i","o","n",":"," ","S","e","n","i","o","r"," ","P","y","t","h","o","n"," ","D","e","v","e","l","o","p","e","r">>

\* a skills section that names more catalog terms than the display caps
SkillsSection == <<"p","y","t","h","o","n",","," ","d","o","c","k","e","r",","," ","a","w","s",","," ","p","h","p",","," ","v","u","e",","," ","c","s","s",","," ","a","p","i",","," ","s","q","l",","," ","g","i","t",","," ","g","c","p",","," ","n","l","p",","," ","t","d","d",","," ","b","d","d">>

\* a job description none of whose keywords is in the catalog
Web3JobDescription == <<"w","e","b","3"," ","f","r","o","n","t","-","e","n","d">>

\* a job description of ten keywords, none in the catalog, and a resume that has
\* seven of them
StandardsJobDescription ==
  <<"h","t","m","l","5"," ","c","s","s","3"," ","e","s","6"," ","w","e","b","3"," ","o","a","u","t","h","2"," ","h","t","t","p","2"," ","i","p","v","6"," ","k","8","s"," ","e","c","2"," ","i","1","8","n">>

StandardsResume ==
  <<"h","t","m","l","5"," ","c","s","s","3"," ","e","s","6"," ","w","e","b","3"," ","o","a","u","t","h","2"," ","h","t","t","p","2"," ","i","p","v","6">>

\* a job description whose only catalog term has two letters
GoJobDescription == <<"G","o"," ","d","e","v","e","l","o","p","e","r">>

ResumePieces == {<<"P","y","t","h","o","n"," ">>, <<"d","o","c","k","e","r","."," ">>, <<"w","e","b","3"," ">>}

JobPieces == {<<"p","y","t","h","o","n"," ">>, <<"D","o","c","k","e","r",","," ">>, <<"w","e","b","3"," ">>}

ResumeTexts == Concatenations(ResumePieces, MaxPieces) \cup {ScenarioResume, SkillsSection, StandardsResume}

JobTexts == Concatenations(JobPieces, MaxPieces) \cup 
  {ScenarioJobDescription, SkillsSection, GoJobDescription, Web3JobDescription,
   StandardsJobDescription}

\* what Math.random() returns, as fractions in [0, 1): the least value, the
\* middle and one just below 1
RandomValues == {<<0, 1>>, <<1, 2>>, <<999, 1000>>}

SummaryTexts ==
  { <<"Q","u","a","n","t","i","f","y"," ","r","e","s","u","l","t","s","."," ","N","a","m","e"," ","y","o","u","r"," ","t","o","o","l","s","."," ","O","k","."," "," ","S","h","o","w"," ","t","e","a","m"," ","i","m","p","a","c","t","."," ","K","e","e","p"," ","i","t"," ","s","h","o","r","t"," ","n","o","w">>,
    <<"S","h","o","r","t","."," ","T","i","n","y",".">> }

PdfType == "application/pdf"

DocxType == "application/vnd.openxmlformats-officedocument.wordprocessingml.document"

\* the uploads a client can send: none, or a file of some type whose bytes the
\* parser turns into a text or fails on
NoFile == [present |-> FALSE, mimetype |-> "", parses |-> FALSE, text |-> <<>>]

Files ==
  {NoFile}
  \cup {[present |-> TRUE, mimetype |-> "text/plain", parses |-> FALSE, text |-> <<>>]}
  \cup [present : {TRUE}, mimetype : {PdfType, DocxType}, parses : {FALSE}, text : {<<>>}]
  \cup [present : {TRUE}, mimetype : {PdfType, DocxType}, parses : {TRUE}, text : ResumeTexts]

NoRequest == [file |-> NoFile, jobDescription |-> <<>>]

NoLocals ==
  [ resumeKeywords |-> <<>>, jdKeywords |-> <<>>, matchedSkills |-> <<>>,
    missingKeywords |-> <<>>, scoreBeforeCap |-> 0, matchScore |-> 0, displaySkills |-> <<>> ]

NoCall == [state |-> "none", kind |-> "", summaryText |-> <<>>,
           prompt |-> [jobRequirements |-> <<>>, resumeSummary |-> <<>>]]

NoReport ==
  [ matchScore |-> 0, matchLevel |-> "", positionTitle |-> <<>>, company |-> <<>>,
    missingKeywords |-> <<>>, skillsFound |-> <<>>, improvements |-> <<>> ]

NoResponse == [status |-> 0, error |-> "", details |-> "", report |-> NoReport]

\* ------------------------------------------------------------------------
\* The server: one request at a time through POST /api/analyze
\* ------------------------------------------------------------------------

VARIABLES
  app,             \* the server file that runs: "part_000" or "server"
  stage,           \* where the request is
  req,             \* the request as multer hands it over
  resumeText,      \* the text extracted from the upload
  jobDescription,  \* req.body.jobDescription once validated
  locals,          \* the scorer's locals of analyzeWithHuggingFace
  improvements,    \* the improvements local
  call,            \* the summarization call
  response,        \* what res.status(..).json(..) sent
  unit             \* a function of the source run on its own: its input and results

serverVars == <<app, stage, req, resumeText, jobDescription, locals, improvements, call, response>>

vars == <<serverVars, unit>>

\* no function is being run on its own
NoUnit == [stage |-> "none", text |-> <<>>, normalized |-> <<>>, keywords |-> <<>>,
           positionTitle |-> <<>>, company |-> <<>>]

Apps == {"part_000", "server"}

Init ==
  /\ app \in Apps
  /\ stage = "idle"
  /\ req = NoRequest
  /\ resumeText = <<>>
  /\ jobDescription = <<>>
  /\ locals = NoLocals
  /\ improvements = <<>>
  /\ call = NoCall
  /\ response = NoResponse
  /\ unit = NoUnit

\* res.status(status).json({error, details})
Fail(status, error, details) ==
  /\ stage' = "responded"
  /\ response' = [status |-> status, error |-> error, details |-> details, report |-> NoReport]

\* multer: upload.single('resume') with the fileFilter; a file of another type
\* ends the request with the filter's error
Upload(file, jd) ==
  /\ stage = "idle"
  /\ req' = [file |-> file, jobDescription |-> jd]
  /\ IF file.present /\ file.mimetype \notin {PdfType, DocxType}
     THEN Fail(500, "Invalid file type. Only PDF and DOCX allowed.", "")
     ELSE stage' = "uploaded" /\ UNCHANGED response
  /\ UNCHANGED <<app, resumeText, jobDescription, locals, improvements, call, unit>>

\* the handler up to its first await: the two validations
Validate ==
  /\ stage = "uploaded"
  /\ IF ~req.file.present
     THEN Fail(400, "No resume file uploaded", "") /\ UNCHANGED jobDescription
     ELSE IF req.jobDescription = <<>>
     THEN Fail(400, "Job description is required", "") /\ UNCHANGED jobDescription
     ELSE /\ stage' = "extracting"
          /\ jobDescription' = req.jobDescription
          /\ UNCHANGED response
  /\ UNCHANGED <<app, req, resumeText, locals, improvements, call, unit>>

\* extractPDF / extractDOCX throws: the handler's catch answers 500
ExtractFails ==
  /\ stage = "extracting"
  /\ ~req.file.parses
  /\ Fail(500, "Failed to analyze resume",
          IF req.file.mimetype = PdfType THEN "Failed to parse PDF" ELSE "Failed to parse DOCX")
  /\ UNCHANGED <<app, req, resumeText, jobDescription, locals, improvements, call, unit>>

\* what is common to both files once the scorer's locals are known: the
\* fallback list is set and the fetch is issued
IssueCall(text, scored, fallback) ==
  /\ resumeText' = text
  /\ locals' = scored
  /\ improvements' = fallback
  /\ call' = [state |-> "pending", kind |-> "", summaryText |-> <<>>,
              prompt |-> prompt(text, jobDescription)]
  /\ stage' = "awaiting_fetch"
  /\ req' = NoRequest
  /\ UNCHANGED <<app, jobDescription, response, unit>>

\* the text is extracted and analyzeWithHuggingFace runs up to its await fetch(...)
ExtractSucceeds ==
  /\ stage = "extracting"
  /\ req.file.parses
  /\ \/ /\ app = "part_000"
        /\ IssueCall(req.file.text, scoring(req.file.text, jobDescription), fallbackImprovements)
     \/ /\ app = "server"
        /\ \E random \in RandomValues :
             IssueCall(req.file.text, simpleScoring(req.file.text, jobDescription, random),
                       simpleFallbackImprovements)

\* the return value of analyzeWithHuggingFace
report(finalImprovements) ==
  IF app = "part_000"
  THEN [ matchScore      |-> locals.matchScore,
         matchLevel      |-> matchLevel(locals.matchScore),
         positionTitle   |-> positionTitle(jobDescription),
         company         |-> company(jobDescription),
         missingKeywords |-> slice(locals.missingKeywords, ReportMissingCap),
         skillsFound     |-> locals.displaySkills,
         improvements    |-> finalImprovements ]
  ELSE [ matchScore      |-> locals.matchScore,
         matchLevel      |-> simpleMatchLevel(locals.matchScore),
         positionTitle   |-> simplePositionTitle(jobDescription),
         company         |-> simpleCompany(jobDescription),
         missingKeywords |-> slice(locals.missingKeywords, SimpleReportMissingCap),
         skillsFound     |-> locals.matchedSkills,
         improvements    |-> finalImprovements ]

\* the call without its inner try/catch: a failure reaches the handler's catch
FinishSurfacing(kind, summaryText) ==
  /\ improvements' = improvements
  /\ call' = [call EXCEPT !.state = "settled", !.kind = kind, !.summaryText = summaryText]
  /\ IF kind \in {"rejected", "bad_json", "null", "not_string"}
     THEN Fail(500, "Failed to analyze resume", "fetch failed")
     ELSE /\ stage' = "responded"
          /\ response' = [status |-> 200, error |-> "", details |-> "",
                          report |-> report(improvementsAfter(kind, summaryText))]
  /\ UNCHANGED <<app, req, resumeText, jobDescription, locals, unit>>

\* the rest of analyzeWithHuggingFace once the call has ended, and res.json(results)
Finish(kind, summaryText) ==
  LET final == IF improvementsAfter(kind, summaryText) = fallbackImprovements
               THEN improvements
               ELSE improvementsAfter(kind, summaryText)
  IN  /\ improvements' = final
      /\ call' = [call EXCEPT !.state = "settled", !.kind = kind, !.summaryText = summaryText]
      /\ stage' = "responded"
      /\ response' = [status |-> 200, error |-> "", details |-> "", report |-> report(final)]
      /\ UNCHANGED <<app, req, resumeText, jobDescription, locals, unit>>

\* fetch rejects: the inner catch logs and the function goes on
FetchRejects ==
  /\ stage = "awaiting_fetch"
  /\ Finish("rejected", <<>>)

\* fetch resolves with a response: response.ok decides whether the body is read
FetchResponds(ok) ==
  /\ stage = "awaiting_fetch"
  /\ IF ok
     THEN /\ stage' = "awaiting_json"
          /\ call' = [call EXCEPT !.state = "reading"]
          /\ UNCHANGED <<app, req, resumeText, jobDescription, locals, improvements, response, unit>>
     ELSE Finish("not_ok", <<>>)

\* response.json() settles
JsonSettles(kind, summaryText) ==
  /\ stage = "awaiting_json"
  /\ Finish(kind, summaryText)

\* the next request arrives: nothing of the last one is kept
NextRequest ==
  /\ stage = "responded"
  /\ stage' = "idle"
  /\ req' = NoRequest
  /\ resumeText' = <<>>
  /\ jobDescription' = <<>>
  /\ locals' = NoLocals
  /\ improvements' = <<>>
  /\ call' = NoCall
  /\ response' = NoResponse
  /\ UNCHANGED <<app, unit>>

Next ==
  \/ \E file \in Files, jd \in JobTexts \cup {<<>>} : Upload(file, jd)
  \/ Validate
  \/ ExtractFails
  \/ ExtractSucceeds
  \/ FetchRejects
  \/ \E ok \in BOOLEAN : FetchResponds(ok)
  \/ \E kind \in {"bad_json", "null", "no_summary", "not_string"} : JsonSettles(kind, <<>>)
  \/ \E summaryText \in SummaryTexts : JsonSettles("summary", summaryText)
  \/ NextRequest

Spec == Init /\ [][Next]_vars

\* WF_vars(ExtractSucceeds), with ENABLED <<ExtractSucceeds>>_vars written out:
\* the step can be taken exactly when a file that parses is being extracted
ExtractSucceedsFair ==
  \/ []<>~(stage = "extracting" /\ req.file.parses)
  \/ []<><<ExtractSucceeds>>_vars

\* The handler's own steps run whenever they can (the event loop runs a ready
\* continuation, the parsers work on a buffer in memory); when, and whether, the
\* summarization service answers is not the server's to decide.
FairSpec == Spec /\ WF_vars(Validate) /\ WF_vars(ExtractFails) /\ ExtractSucceedsFair

\* ------------------------------------------------------------------------
\* extractKeywords on its own
\* ------------------------------------------------------------------------

\* a skills section that names more catalog terms than extractKeywords returns
LongSkillsList ==
  <<"p","h","p",","," ","v","u","e",","," ","c","s","s",","," ","a","p","i",","," ","s","q","l",","," ","a","w","s",","," ","g","c","p",","," ","n","l","p",","," ","g","i","t",","," ","t","d","d",","," ","b","d","d",","," ","j","a","v","a",","," ","r","u","b","y",","," ","r","u","s","t",","," ","p","e","r","l",","," ","b","a","s","h",","," ","h","t","m","l",","," ","s","a","s","s",","," ","l","e","s","s",","," ","m","o","b","x",","," ","r","e","s","t",","," ","j","i","r","a",","," ","j","e","s","t",","," ","u","n","i","x",","," ","k","e","r","a","s",","," ","n","u","m","p","y",","," ","s","c","r","u","m",","," ","l","i","n","u","x",","," ","n","g","i","n","x",","," ","r","e","d","u","x",","," ","f","l","a","s","k",","," ","r","a","i","l","s">>

KeywordPieces ==
  { <<"C","+","+"," ">>, <<"C","#"," ","a","n","d"," ">>, <<"N","o","d","e",".","j","s",","," ">>, <<"C","I","/","C","D"," ">>, <<"P","y","t","h","o","n","."," ">>, <<"p","y","t","h","o","n","3"," ">>, <<"a","w","s"," ">>,
    <<"M","a","c","h","i","n","e"," "," ","L","e","a","r","n","i","n","g","\n">>, <<"s","c","i","k","i","t","-","l","e","a","r","n","!"," ">>, <<"t","h","e"," ","t","e","a","m"," ">>, <<"2","0","2","4"," ">>, <<"A","W","S"," ","(","a","w","s",")"," ">> }

KeywordTexts == Concatenations(KeywordPieces, MaxPieces) \cup {LongSkillsList, ScenarioJobDescription}

ServerIdle ==
  /\ app = "part_000"
  /\ stage = "idle"
  /\ req = NoRequest
  /\ resumeText = <<>>
  /\ jobDescription = <<>>
  /\ locals = NoLocals
  /\ improvements = <<>>
  /\ call = NoCall
  /\ response = NoResponse

InitKeywords ==
  /\ ServerIdle
  /\ \E text \in KeywordTexts : unit = [NoUnit EXCEPT !.stage = "text", !.text = text]

\* the first statement of extractKeywords
Normalize ==
  /\ unit.stage = "text"
  /\ unit' = [unit EXCEPT !.stage = "normalized", !.normalized = normalizedText(unit.text)]
  /\ UNCHANGED serverVars

\* extractKeywords returns
Extract ==
  /\ unit.stage = "normalized"
  /\ unit' = [unit EXCEPT !.stage = "keywords", !.keywords = extractKeywords(unit.text)]
  /\ UNCHANGED serverVars

NextKeywords == Normalize \/ Extract

SpecKeywords == InitKeywords /\ [][NextKeywords]_vars

\* ------------------------------------------------------------------------
\* The field extractor on its own
\* ------------------------------------------------------------------------

FieldPieces ==
  { <<"W","e"," ","a","r","e"," ","h","i","r","i","n","g"," ","a"," ","S","e","n","i","o","r"," ","D","a","t","a"," ","E","n","g","i","n","e","e","r">>, <<"P","o","s","i","t","i","o","n",":"," ","S","t","a","f","f"," ","E","n","g","i","n","e","e","r",","," ","B","e","r","l","i","n">>,
    <<"S","e","n","i","o","r"," ","S","o","f","t","w","a","r","e"," ","E","n","g","i","n","e","e","r">>, <<"\n">>, <<"."," ">>, <<"C","o","m","p","a","n","y",":"," ","A","c","m","e"," ","C","o","r","p","."," ">>,
    <<"J","o","i","n"," "," ","I","n","i","t","e","c","h"," ","t","o","d","a","y">>, <<"r","o","l","e",":"," "," ",".">>, <<"s","e","e","k","i","n","g"," ","a","n"," ","a","n","a","l","y","s","t">>, <<"a","t",":","\n","G","l","o","b","e","x"," ","L","t","d">>,
    <<" ","L","o","o","k","i","n","g"," ","f","o","r"," ","W","o","r","k"," ","a","t"," ","h","o","m","e",","," ">> }

FieldTexts == Concatenations(FieldPieces, MaxPieces)

InitFields ==
  /\ ServerIdle
  /\ \E text \in FieldTexts : unit = [NoUnit EXCEPT !.stage = "text", !.text = text]

\* the loop over titlePatterns
ExtractTitle ==
  /\ unit.stage = "text"
  /\ unit' = [unit EXCEPT !.stage = "titled", !.positionTitle = positionTitle(unit.text)]
  /\ UNCHANGED serverVars

\* the loop over companyPatterns
ExtractCompany ==
  /\ unit.stage = "titled"
  /\ unit' = [unit EXCEPT !.stage = "fields", !.company = company(unit.text)]
  /\ UNCHANGED serverVars

NextFields == ExtractTitle \/ ExtractCompany

SpecFields == InitFields /\ [][NextFields]_vars

\* ------------------------------------------------------------------------
\* Properties
\* ------------------------------------------------------------------------

\* a report has been sent
Reported == stage = "responded" /\ response.status = 200

\* the scorer has run for the request in hand
Scored == call.state # "none"

Alphanumeric(c) == IsUpper(c) \/ IsLower(c) \/ IsDigit(c)

\* the term stands in the text as a word: whatever the case of its letters, with
\* no letter or digit right before or right after it
OccursAsWord(term, text) ==
  \E i \in 1..Len(text) :
     /\ LiteralAt(text, i, term)
     /\ (i = 1 \/ ~Alphanumeric(text[i - 1]))
     /\ (i + Len(term) > Len(text) \/ ~Alphanumeric(text[i + Len(term)]))

\* the catalog's terms of one word and more than two characters
SingleWordTerms == {term \in technicalTerms : Len(term) > 2 /\ ~includes(term, <<" ">>)}

\* the position of an element in a sequence without repetitions, 0 when absent
PositionIn(s, x) == IF x \in Range(s) THEN CHOOSE i \in 1..Len(s) : s[i] = x ELSE 0

\* s is n / d rounded to the nearest integer, halves upwards
IsRounded(s, n, d) == 2 * s * d - d <= 2 * n /\ 2 * n < 2 * s * d + d

\* the job-description keywords found in the resume's keywords, case-insensitively
MatchedOf(resumeKeywords, jdKeywords) ==
  SelectSeq(jdKeywords,
    LAMBDA k : \E j \in 1..Len(resumeKeywords) : toLowerCase(k) = toLowerCase(resumeKeywords[j]))

\* the job-description keywords of the catalog that the resume's keywords lack
MissingOf(resumeKeywords, jdKeywords) ==
  SelectSeq(jdKeywords,
    LAMBDA k : /\ toLowerCase(k) \in technicalTerms
               /\ \A j \in 1..Len(resumeKeywords) : toLowerCase(k) # toLowerCase(resumeKeywords[j]))

\* C1: in every report, of either server file, matchScore is an integer from 0
\* to 95; it is never 100.
C1_ScoreWithinBounds ==
  /\ locals.matchScore \in 0..95
  /\ Reported => response.report.matchScore \in 0..95

\* C1's case: a report whose score the cap cut down to 95
C1_Witness ==
  Reported /\ app = "part_000" /\ locals.scoreBeforeCap = 100 /\ response.report.matchScore = 95

\* C2: no term of a report's missingKeywords equals, whatever the case, a term
\* of the keyword list extracted from the resume.
C2_MissingNotInResume ==
  Reported =>
    \A i \in 1..Len(response.report.missingKeywords), j \in 1..Len(locals.resumeKeywords) :
       toLowerCase(response.report.missingKeywords[i]) # toLowerCase(locals.resumeKeywords[j])

\* C2's case: a report with missing keywords for a resume that has keywords,
\* one of which the job description asks for
C2_Witness ==
  /\ Reported
  /\ app = "part_000"
  /\ response.report.missingKeywords # <<>>
  /\ locals.matchedSkills # <<>>

\* C3: a one-word catalog term of more than two characters that stands as a
\* word in both texts is among the matched skills (and in skillsFound when among
\* the first 8); one that stands as a word in the job description only is among
\* the missing keywords (and in missingKeywords when among the first 5);
\* whatever punctuation follows the word.
C3_TermsRecognised ==
  (Reported /\ app = "part_000") =>
    \A term \in SingleWordTerms :
       LET inResume == OccursAsWord(term, resumeText)
           inJob    == OccursAsWord(term, jobDescription)
           matched  == MatchedOf(locals.resumeKeywords, locals.jdKeywords)
           missing  == MissingOf(locals.resumeKeywords, locals.jdKeywords)
       IN  /\ (inResume /\ inJob) =>
                /\ term \in Range(matched)
                /\ PositionIn(matched, term) <= 8 => term \in Range(response.report.skillsFound)
           /\ (inJob /\ ~inResume) =>
                /\ term \in Range(missing)
                /\ PositionIn(missing, term) <= 5 => term \in Range(response.report.missingKeywords)

\* C4: however the summarization call fails, the request is answered with the
\* report and not with an error, improvements is the static fallback list, and
\* every other field is what the scorer and the field extractor made of the two
\* texts, as it is when the call succeeds.
C4_FailureIsAbsorbed ==
  (stage = "responded" /\ call.state = "settled") =>
    /\ response.status = 200
    /\ response.error = ""
    /\ call.kind \in CallFailures =>
         response.report.improvements =
           (IF app = "part_000" THEN fallbackImprovements ELSE simpleFallbackImprovements)
    /\ response.report.matchScore = locals.matchScore
    /\ response.report.skillsFound = locals.displaySkills
    /\ response.report.missingKeywords =
         slice(locals.missingKeywords,
               IF app = "part_000" THEN ReportMissingCap ELSE SimpleReportMissingCap)
    /\ response.report.matchLevel =
         (IF app = "part_000" THEN matchLevel(locals.matchScore)
                              ELSE simpleMatchLevel(locals.matchScore))
    /\ response.report.positionTitle =
         (IF app = "part_000" THEN positionTitle(jobDescription)
                              ELSE simplePositionTitle(jobDescription))
    /\ response.report.company =
         (IF app = "part_000" THEN company(jobDescription) ELSE simpleCompany(jobDescription))

\* C4's case: the fetch was rejected and the report went out with the fallback list
C4_Witness ==
  /\ Reported
  /\ app = "part_000"
  /\ call.kind = "rejected"
  /\ response.report.improvements = fallbackImprovements
  /\ response.report.skillsFound # <<>>

\* C5: once the summarization call is under way, the response is eventually
\* sent even if the call never completes.
C5_RespondsDespiteDelay ==
  (stage \in {"awaiting_fetch", "awaiting_json"}) ~> (stage = "responded")

\* C8: before the cap, matchScore is round(100 * technical matches / technical
\* requirements) when the job description has a technical keyword, and
\* round(85 * matched / max(job keywords, 1)) when it has none; with no job
\* keyword at all it is 0.  The reported score is that, capped.
C8_ScoreFormula ==
  (Scored /\ app = "part_000") =>
    LET jd       == locals.jdKeywords
        matched  == MatchedOf(locals.resumeKeywords, jd)
        required == {i \in 1..Len(jd) : toLowerCase(jd[i]) \in technicalTerms}
        met      == {i \in 1..Len(matched) : toLowerCase(matched[i]) \in technicalTerms}
        s        == locals.scoreBeforeCap
    IN  /\ required # {} => IsRounded(s, 100 * Cardinality(met), Cardinality(required))
        /\ required = {} => IsRounded(s, 85 * Len(matched), IF Len(jd) > 1 THEN Len(jd) ELSE 1)
        /\ jd = <<>> => s = 0
        /\ locals.matchScore = (IF s > 95 THEN 95 ELSE s)

\* the first two sentences of C9, which both statements of it share
SkillsFoundRule ==
  LET matched == MatchedOf(locals.resumeKeywords, locals.jdKeywords)
  IN  /\ matched # <<>> => response.report.skillsFound = slice(matched, 8)
      /\ matched = <<>> =>
           response.report.skillsFound =
             slice(SelectSeq(locals.resumeKeywords, LAMBDA k : toLowerCase(k) \in technicalTerms), 5)

\* what C9 concludes for an empty resume
EmptyResumeReport ==
  /\ response.report.skillsFound = <<>>
  /\ response.report.matchScore = 0
  /\ response.report.missingKeywords # <<>>
  /\ \A i \in 1..Len(response.report.missingKeywords) :
        /\ response.report.missingKeywords[i] \in technicalTerms
        /\ response.report.missingKeywords[i] \in Range(locals.jdKeywords)

\* C9 as stated: skillsFound is the first 8 matched skills, or with none matched
\* the first 5 technical resume keywords; hence for an empty resume and a job
\* description that contains technical terms, skillsFound is empty, matchScore
\* is 0 and missingKeywords is non-empty and made of job-description technical
\* terms.
C9_AsStated ==
  (Reported /\ app = "part_000") =>
    /\ SkillsFoundRule
    /\ (resumeText = <<>> /\ \E term \in technicalTerms : OccursAsWord(term, jobDescription))
         => EmptyResumeReport

\* C9 as amended: the same, for an empty resume and a job description from
\* which at least one technical term is extracted as a keyword.
C9_SkillsFound ==
  (Reported /\ app = "part_000") =>
    /\ SkillsFoundRule
    /\ (resumeText = <<>> /\ \E i \in 1..Len(locals.jdKeywords) :
                                 locals.jdKeywords[i] \in technicalTerms)
         => EmptyResumeReport

\* C9's case: an empty resume against a job description with technical keywords
C9_Witness ==
  /\ Reported
  /\ app = "part_000"
  /\ resumeText = <<>>
  /\ Len(response.report.missingKeywords) = 5
  /\ response.report.skillsFound = <<>>

\* C6: the list extractKeywords returns has at most 30 entries and no term twice.
C6_KeywordListBounded ==
  unit.stage = "keywords" =>
    /\ Len(unit.keywords) <= 30
    /\ \A i, j \in 1..Len(unit.keywords) : i # j => unit.keywords[i] # unit.keywords[j]

\* C6's case: a text with more than 30 distinct terms, of which 30 are returned
C6_Witness ==
  /\ unit.stage = "keywords"
  /\ Len(unit.keywords) = 30
  /\ Len(allTerms(unit.normalized)) > 30

\* the characters normalisation is to keep
KeptCharacters(s) ==
  SelectSeq(s, LAMBDA c : Alphanumeric(c) \/ c \in {"+", "#", ".", "-"})

\* C7: normalisation keeps every letter and digit (lowercased) and every "+",
\* "#", "." and "-" of the text, so a text with "c++" in it still has "c++" in
\* it once normalised, and the term is extracted.
C7_SymbolsKept ==
  unit.stage \in {"normalized", "keywords"} =>
    /\ KeptCharacters(unit.normalized) = KeptCharacters(toLowerCase(unit.text))
    /\ includes(toLowerCase(unit.text), <<"c","+","+">>) => includes(unit.normalized, <<"c","+","+">>)
    /\ (unit.stage = "keywords" /\ OccursAsWord(<<"c","+","+">>, unit.text)) =>
         <<"c","+","+">> \in Range(unit.keywords)

\* C10: positionTitle and company are the trimmed capture of the first rule of
\* their list that matches the raw job description, and the placeholder when
\* none does.
C10_FirstRuleWins ==
  unit.stage = "fields" =>
    LET label  == labelPattern(unit.text, <<<<"p","o","s","i","t","i","o","n">>, <<"r","o","l","e">>, <<"t","i","t","l","e">>, <<"j","o","b">>>>)
        hiring == hiringPattern(unit.text)
        line   == titleLinePattern(unit.text)
        at     == labelPattern(unit.text, <<<<"c","o","m","p","a","n","y">>, <<"a","t">>, <<"e","m","p","l","o","y","e","r">>>>)
        join   == joinPattern(unit.text)
    IN  /\ unit.positionTitle =
             (IF label.matched THEN trim(label.capture)
              ELSE IF hiring.matched THEN trim(hiring.capture)
              ELSE IF line.matched THEN trim(line.capture)
              ELSE <<"T","a","r","g","e","t"," ","P","o","s","i","t","i","o","n">>)
        /\ unit.company =
             (IF at.matched THEN trim(at.capture)
              ELSE IF join.matched THEN trim(join.capture)
              ELSE <<"T","a","r","g","e","t"," ","C","o","m","p","a","n","y">>)

\* C10's case: a job description that a later rule matches as well as the label
\* rule, with another capture, and the label rule's capture is the title
C10_Witness ==
  /\ unit.stage = "fields"
  /\ labelPattern(unit.text, <<<<"p","o","s","i","t","i","o","n">>, <<"r","o","l","e">>, <<"t","i","t","l","e">>, <<"j","o","b">>>>).matched
  /\ hiringPattern(unit.text).matched
  /\ trim(hiringPattern(unit.text).capture) # unit.positionTitle
  /\ unit.positionTitle # <<>>
  /\ unit.company = <<"T","a","r","g","e","t"," ","C","o","m","p","a","n","y">>

====
